---------------------------- MODULE Spec2Model ----------------------------
(***************************************************************************)
(* Model of main.py: the spreadsheet-driven export of PostgreSQL query     *)
(* results to CSV files.                                                   *)
(*                                                                         *)
(* Python str values are sequences of one-character strings, bytes values  *)
(* are sequences of numbers 0..255.  A spreadsheet cell value is a record  *)
(* [t, s, n]: t = "none" (empty cell), "str" (text s) or "num" (number n). *)
(***************************************************************************)
EXTENDS Integers, Sequences, FiniteSets, TLC

VARIABLES
    pc,         \* where main() stands: "off" (not run), "start", "loop", "fetch",
                \* "export", "rows", "done", "aborted", "interrupted"
    run,        \* the number of the run of main()
    excel,      \* whether an .xlsx file lies next to main.py
    saved,      \* the spreadsheet on disk: row |-> [C |-> query cell, D |-> cell]
    sheet,      \* wb.active, the spreadsheet in memory (<<>> before it is loaded)
    row,        \* the row the loop of main() is at
    csv_name,   \* the output name of the row's job
    output,     \* the files of output/: name |-> the lines of the file
    openConns,  \* the open database connections, each named by the row it was made for
    dbRows,     \* the number of rows the queries of this database return
    data,       \* the rows fetch_data returned
    columns,    \* the column names fetch_data returned
    idx,        \* the next row of data export_to_csv writes
    abortCause, \* the exception that ended main(), "" if none
    exported,   \* history: the rows whose export this run has started
    opened,     \* history: the files this run has opened for writing
    start,      \* history: output/ and the saved spreadsheet when the run began
    prevDone,   \* history: whether the run before this one ran to its end
    arg,        \* the argument of the function applied (name deriver, classifier)
    ret,        \* what it returned
    fpc,        \* "idle", "called" or "returned"
    images,     \* the files of images/: path |-> bytes
    issued      \* the tokens uuid.uuid4() has returned or that name a file of images/

mainvars ==
    <<pc, run, excel, saved, sheet, row, csv_name, output, openConns, dbRows,
      data, columns, idx, abortCause, exported, opened, start, prevDone>>

vars == <<mainvars, arg, ret, fpc, images, issued>>

-----------------------------------------------------------------------------
(* Characters and strings                                                   *)

\* The printable ASCII characters, code points 32..126 in order (92 and 96,
\* which no text of the model holds, are written as names).
Printable ==
    <<" ", "!", "\"", "#", "$", "%", "&", "'", "(", ")", "*", "+", ",", "-", ".",
      "/", "0", "1", "2", "3", "4", "5", "6", "7", "8", "9", ":", ";", "<", "=",
      ">", "?", "@", "A", "B", "C", "D", "E", "F", "G", "H", "I", "J", "K", "L",
      "M", "N", "O", "P", "Q", "R", "S", "T", "U", "V", "W", "X", "Y", "Z", "[",
      "<backslash>", "]", "^", "_", "<backquote>", "a", "b", "c", "d", "e", "f", "g", "h", "i", "j",
      "k", "l", "m", "n", "o", "p", "q", "r", "s", "t", "u", "v", "w", "x", "y",
      "z", "{", "|", "}", "~">>

Chars == {Printable[i] : i \in 1..Len(Printable)} \cup {"\t", "\n"}

\* ord(c): the code point of a character (tab and newline besides Printable).
OrdOf ==
    [c \in Chars |->
        IF c = "\t" THEN 9
        ELSE IF c = "\n" THEN 10
        ELSE 31 + (CHOOSE i \in 1..Len(Printable) : Printable[i] = c)]

Ord(c) == OrdOf[c]

Chr(n) == Printable[n - 31]

\* str.lower() of one ASCII character, the folding re.IGNORECASE applies.
Lower(c) == IF Ord(c) >= 65 /\ Ord(c) <= 90 THEN Chr(Ord(c) + 32) ELSE c

LowerStr(s) == [i \in 1..Len(s) |-> Lower(s[i])]

\* \s of the regular expression, on the characters of the model.
IsSpace(c) == c \in {" ", "\t", "\n"}

\* The character class [a-zA-Z0-9_."] of the regular expression.
IsIdentChar(c) ==
    \/ Ord(c) >= 97 /\ Ord(c) <= 122
    \/ Ord(c) >= 65 /\ Ord(c) <= 90
    \/ Ord(c) >= 48 /\ Ord(c) <= 57
    \/ c \in {"_", ".", "\""}

\* Python's < on str: lexicographic by code point, a proper prefix first.
RECURSIVE StrLess(_, _)
StrLess(a, b) ==
    IF b = <<>> THEN FALSE
    ELSE IF a = <<>> THEN TRUE
    ELSE IF Ord(a[1]) # Ord(b[1]) THEN Ord(a[1]) < Ord(b[1])
    ELSE StrLess(Tail(a), Tail(b))

\* sorted(set_of_str): the elements in increasing order.
RECURSIVE Sorted(_)
Sorted(S) ==
    IF S = {} THEN <<>>
    ELSE LET m == CHOOSE x \in S : \A y \in S \ {x} : StrLess(x, y)
         IN  <<m>> \o Sorted(S \ {m})

\* sep.join(parts)
RECURSIVE Join(_, _)
Join(sep, parts) ==
    IF parts = <<>> THEN <<>>
    ELSE IF Len(parts) = 1 THEN parts[1]
    ELSE parts[1] \o sep \o Join(sep, Tail(parts))

\* str(n) for a natural number n: its decimal digits.
RECURSIVE Str(_)
Str(n) == IF n < 10 THEN <<Chr(48 + n)>> ELSE Str(n \div 10) \o <<Chr(48 + (n % 10))>>

NoFiles == [p \in {} |-> <<>>]

\* open(path, "wb").write(content): the file is created or overwritten.
WriteFile(fs, path, content) ==
    [p \in DOMAIN fs \cup {path} |-> IF p = path THEN content ELSE fs[p]]

\* main() is not run: the state of the specifications that apply one function.
MainOff ==
    /\ pc = "off" /\ run = 0 /\ excel = FALSE /\ saved = <<>> /\ sheet = <<>>
    /\ row = 0 /\ csv_name = <<>> /\ output = NoFiles /\ openConns = {}
    /\ dbRows = 0 /\ data = <<>> /\ columns = <<>> /\ idx = 0 /\ abortCause = ""
    /\ exported = {} /\ opened = {} /\ start = <<>> /\ prevDone = FALSE

-----------------------------------------------------------------------------
(* DataProcessor.extract_table_names                                        *)

\* Where a greedy \s+ that starts at index i of s ends: the first index >= i
\* whose character is no whitespace (Len(s) + 1 if there is none).
RECURSIVE SpaceEnd(_, _)
SpaceEnd(s, i) == IF i > Len(s) \/ ~IsSpace(s[i]) THEN i ELSE SpaceEnd(s, i + 1)

\* The same for a greedy run of the characters of the identifier class.
RECURSIVE IdentEnd(_, _)
IdentEnd(s, i) == IF i > Len(s) \/ ~IsIdentChar(s[i]) THEN i ELSE IdentEnd(s, i + 1)

\* (?:FROM|JOIN) at index i, ignoring case.
KeywordAt(q, i) ==
    /\ i + 3 <= Len(q)
    /\ LowerStr(SubSeq(q, i, i + 3)) \in {<<"f", "r", "o", "m">>, <<"j", "o", "i", "n">>}

\* A match of (?:FROM|JOIN)\s+([a-zA-Z0-9_."]+) starting at index i:
\* ok, the captured group and the index after the match.
MatchAt(q, i) ==
    LET k == SpaceEnd(q, i + 4)
        e == IdentEnd(q, k)
    IN  IF KeywordAt(q, i) /\ k > i + 4 /\ e > k
        THEN [ok |-> TRUE, group |-> SubSeq(q, k, e - 1), end |-> e]
        ELSE [ok |-> FALSE, group |-> <<>>, end |-> i + 1]

\* re.findall: the groups of the non-overlapping matches, scanning left to right.
RECURSIVE FindAll(_, _)
FindAll(q, i) ==
    IF i > Len(q) THEN <<>>
    ELSE LET m == MatchAt(q, i)
         IN  IF m.ok THEN <<m.group>> \o FindAll(q, m.end) ELSE FindAll(q, i + 1)

\* t.replace('"', "")
RECURSIVE StripQuotes(_)
StripQuotes(t) ==
    IF t = <<>> THEN <<>>
    ELSE IF t[1] = "\"" THEN StripQuotes(Tail(t))
    ELSE <<t[1]>> \o StripQuotes(Tail(t))

\* t.split(".")[-1]: what follows the last dot (all of t without a dot).
RECURSIVE LastSegment(_)
LastSegment(t) ==
    IF \E i \in 1..Len(t) : t[i] = "."
    THEN LastSegment(SubSeq(t, (CHOOSE i \in 1..Len(t) : t[i] = ".") + 1, Len(t)))
    ELSE t

\* t.split(".")[0]: what precedes the first dot.
FirstSegment(t) ==
    IF \E i \in 1..Len(t) : t[i] = "."
    THEN SubSeq(t, 1, (CHOOSE i \in 1..Len(t) : t[i] = "." /\ \A j \in 1..(i - 1) : t[j] # ".") - 1)
    ELSE t

\* CleanTable keeping the schema instead of the table: [0] for [-1].
CleanTable_first(t) == FirstSegment(StripQuotes(t))

CleanTable(t) == LastSegment(StripQuotes(t))

ResultName == <<"r", "e", "s", "u", "l", "t">>

extract_table_names(query) ==
    LET tables == FindAll(query, 1)
        clean_tables == {CleanTable(tables[i]) : i \in 1..Len(tables)}
    IN  IF clean_tables = {} THEN ResultName
        ELSE Join(<<"_">>, Sorted(clean_tables))

-----------------------------------------------------------------------------
(* Query texts for the name deriver: a query is a sequence of clauses, each  *)
(* the text  <word><whitespace><operand><alias>.                             *)

MaxClauses == 2

ClauseWords ==
    { <<"f", "r", "o", "m">>, <<"J", "o", "i", "n">>,
      <<"v", "a", "l", "i", "d", "_", "f", "r", "o", "m">>, <<"O", "N">> }

ClauseSpaces == { <<>>, <<" ", "\n">> }

ClauseOperands ==
    { <<"\"", "U", "s", "e", "r", "s", "\"">>,
      <<"o", "r", "d", "e", "r", "s">>,
      <<"p", "u", "b", "l", "i", "c", ".", "o", "r", "d", "e", "r", "s">>,
      <<"(">> }

ClauseAlias == <<" ", "x", " ">>

Clauses == [word : ClauseWords, ws : ClauseSpaces, operand : ClauseOperands]

ClauseText(c) == c.word \o c.ws \o c.operand \o ClauseAlias

RECURSIVE QueryText(_)
QueryText(cs) == IF cs = <<>> THEN <<>> ELSE ClauseText(cs[1]) \o QueryText(Tail(cs))

ClauseLists == UNION { [1..n -> Clauses] : n \in 0..MaxClauses }

\* SELECT ... FROM "Users" u JOIN orders o ...: the part of the query of the
\* specification's example that the name is derived from.
ExampleQuery ==
    <<"F", "R", "O", "M", " ", "\"", "U", "s", "e", "r", "s", "\"", " ", "u", " ",
      "J", "O", "I", "N", " ", "o", "r", "d", "e", "r", "s", " ", "o">>

\* The name deriver applied to one query text.
InitName ==
    /\ fpc = "called"
    /\ arg \in [clauses : ClauseLists, text : {<<>>}] \cup
               {[clauses |-> <<>>, text |-> ExampleQuery]}
    /\ ret = <<>>
    /\ images = NoFiles
    /\ issued = {}
    /\ MainOff

CallExtractTableNames ==
    /\ fpc = "called"
    /\ ret' = extract_table_names(IF arg.text # <<>> THEN arg.text ELSE QueryText(arg.clauses))
    /\ fpc' = "returned"
    /\ UNCHANGED <<arg, images, issued, mainvars>>

NextName == CallExtractTableNames

SpecName == InitName /\ [][NextName]_vars

-----------------------------------------------------------------------------
(* DataProcessor.process_cell and the image sink                            *)
(*                                                                         *)
(* A value fetched from the database is a record [t, b, s, n]: t = "none"  *)
(* (None), "bytes" (the bytes b), "str" (the text s) or "int" (n).         *)

PyNone == [t |-> "none", b |-> <<>>, s |-> <<>>, n |-> 0]
PyBytes(b) == [t |-> "bytes", b |-> b, s |-> <<>>, n |-> 0]
PyStr(s) == [t |-> "str", b |-> <<>>, s |-> s, n |-> 0]
PyInt(n) == [t |-> "int", b |-> <<>>, s |-> <<>>, n |-> n]

\* a.startswith(prefix), for bytes and for str.
StartsWith(a, prefix) == Len(a) >= Len(prefix) /\ SubSeq(a, 1, Len(prefix)) = prefix

PngMagic == <<137, 80, 78, 71>>
JpegMagic == <<255, 216, 255>>
RiffMagic == <<82, 73, 70, 70>>

_is_real_image(img_bytes) ==
    \/ StartsWith(img_bytes, PngMagic)
    \/ StartsWith(img_bytes, JpegMagic)
    \/ StartsWith(img_bytes, RiffMagic)

_get_image_extension(img_bytes) ==
    IF StartsWith(img_bytes, PngMagic) THEN <<"p", "n", "g">>
    ELSE IF StartsWith(img_bytes, JpegMagic) THEN <<"j", "p", "g">>
    ELSE IF StartsWith(img_bytes, RiffMagic) THEN <<"w", "e", "b", "p">>
    ELSE <<"b", "i", "n">>

HexDigits == <<"0", "1", "2", "3", "4", "5", "6", "7", "8", "9", "a", "b", "c", "d", "e", "f">>

UpperHexDigits == <<"0", "1", "2", "3", "4", "5", "6", "7", "8", "9", "A", "B", "C", "D", "E", "F">>

\* bytes.hex() printing the digits A-F in upper case.
RECURSIVE Hex_upper(_)
Hex_upper(b) ==
    IF b = <<>> THEN <<>>
    ELSE <<UpperHexDigits[(b[1] \div 16) + 1], UpperHexDigits[(b[1] % 16) + 1]>> \o Hex_upper(Tail(b))

\* bytes.hex(): two lowercase hexadecimal digits per byte, high nibble first.
RECURSIVE Hex(_)
Hex(b) ==
    IF b = <<>> THEN <<>>
    ELSE <<HexDigits[(b[1] \div 16) + 1], HexDigits[(b[1] % 16) + 1]>> \o Hex(Tail(b))

\* uuid.uuid4().hex for the token tok (two digits stand for the thirty-two).
TokenHex(tok) == Hex(<<tok>>)

\* The path _save_image writes: images/<column_name>_<token>.<ext>
ImagePath(img_bytes, column_name, tok) ==
    <<"i", "m", "a", "g", "e", "s", "/">> \o column_name \o <<"_">> \o TokenHex(tok)
        \o <<".">> \o _get_image_extension(img_bytes)

\* The value of a base64 digit, 64 for any other character.
B64Value(c) ==
    IF Ord(c) >= 65 /\ Ord(c) <= 90 THEN Ord(c) - 65
    ELSE IF Ord(c) >= 97 /\ Ord(c) <= 122 THEN Ord(c) - 71
    ELSE IF Ord(c) >= 48 /\ Ord(c) <= 57 THEN Ord(c) + 4
    ELSE IF c = "+" THEN 62
    ELSE IF c = "/" THEN 63
    ELSE 64

\* base64.b64decode(s) (not validating): characters outside the alphabet are
\* skipped, a complete pad ends the input, and a last group that is not whole
\* raises.  quad is the position in the group of four, left the bits carried.
RECURSIVE B64Scan(_, _, _, _, _, _)
B64Scan(s, i, quad, left, pads, out) ==
    IF i > Len(s) THEN [ok |-> quad = 0, bytes |-> out]
    ELSE IF s[i] = "="
    THEN IF quad >= 2 /\ quad + pads + 1 >= 4
         THEN [ok |-> TRUE, bytes |-> out]
         ELSE B64Scan(s, i + 1, quad, left, IF quad >= 2 THEN pads + 1 ELSE pads, out)
    ELSE LET v == B64Value(s[i])
         IN  IF v >= 64 THEN B64Scan(s, i + 1, quad, left, pads, out)
             ELSE IF quad = 0 THEN B64Scan(s, i + 1, 1, v, 0, out)
             ELSE IF quad = 1
             THEN B64Scan(s, i + 1, 2, v % 16, 0, Append(out, left * 4 + (v \div 16)))
             ELSE IF quad = 2
             THEN B64Scan(s, i + 1, 3, v % 4, 0, Append(out, left * 16 + (v \div 4)))
             ELSE B64Scan(s, i + 1, 0, 0, 0, Append(out, left * 64 + v))

b64decode(s) == B64Scan(s, 1, 0, 0, 0, <<>>)

DataImage == <<"d", "a", "t", "a", ":", "i", "m", "a", "g", "e">>

\* base64.b64decode(value.split(",", 1)[1]): no comma raises IndexError.
DecodeDataUrl(s) ==
    IF \E i \in 1..Len(s) : s[i] = ","
    THEN LET c == CHOOSE i \in 1..Len(s) : s[i] = "," /\ \A j \in 1..(i - 1) : s[j] # ","
         IN  b64decode(SubSeq(s, c + 1, Len(s)))
    ELSE [ok |-> FALSE, bytes |-> <<>>]

\* The bytes process_cell hands to _save_image for this value, if it does.
ImageBytes(value) ==
    IF value.t = "bytes" THEN value.b
    ELSE LET d == DecodeDataUrl(value.s) IN d.bytes

SavesImage(value) ==
    \/ value.t = "bytes" /\ _is_real_image(value.b)
    \/ /\ value.t = "str"
       /\ StartsWith(value.s, DataImage)
       /\ LET d == DecodeDataUrl(value.s) IN d.ok /\ _is_real_image(d.bytes)

\* The text process_cell returns; tok is the token uuid4 gives _save_image.
process_cell(value, column_name, tok) ==
    IF value.t = "none" THEN <<>>
    ELSE IF SavesImage(value) THEN ImagePath(ImageBytes(value), column_name, tok)
    ELSE IF value.t = "bytes" THEN Hex(value.b)
    ELSE IF value.t = "int" THEN Str(value.n)
    ELSE value.s

MaxToken == 2

Tokens == 0..MaxToken

\* The tokens uuid4 may give the next call of _save_image: any not given
\* before (if the call is made at all).
FreshTokens(value) == IF SavesImage(value) THEN Tokens \ issued ELSE {0}

\* images/ after process_cell(value, column_name).
ImagesAfter(value, column_name, tok) ==
    IF SavesImage(value)
    THEN WriteFile(images, ImagePath(ImageBytes(value), column_name, tok), ImageBytes(value))
    ELSE images

IssuedAfter(value, tok) == IF SavesImage(value) THEN issued \cup {tok} ELSE issued

-----------------------------------------------------------------------------
(* The classifier applied to one value                                      *)

MaxBytes == 4

ByteSamples == {137, 80, 78, 71, 255, 216, 82, 73, 70, 10}

BytesValues == UNION { [1..n -> ByteSamples] : n \in 0..MaxBytes }

PhotoColumn == <<"p", "h", "o", "t", "o">>

\* data:image,iVBORw== (the four bytes of the PNG signature), a data URL with
\* no comma, one whose payload cannot be decoded, one that decodes to no image.
TextValues ==
    { <<"d", "a", "t", "a", ":", "i", "m", "a", "g", "e", ",", "i", "V", "B", "O", "R", "w", "=", "=">>,
      <<"d", "a", "t", "a", ":", "i", "m", "a", "g", "e">>,
      <<"d", "a", "t", "a", ":", "i", "m", "a", "g", "e", ",", "i">>,
      <<"d", "a", "t", "a", ":", "i", "m", "a", "g", "e", ",", "A", "A", "A", "A">>,
      <<"a", "b", "c">>,
      <<>> }

CellValues ==
    {PyNone} \cup {PyBytes(b) : b \in BytesValues} \cup {PyStr(t) : t \in TextValues}
        \cup {PyInt(n) : n \in {0, 42}}

\* images/ before the call: empty, or holding an image saved earlier.
InitCell ==
    /\ fpc = "called"
    /\ arg \in [value : CellValues, column : {PhotoColumn}]
    /\ ret = <<>>
    /\ \E old \in SUBSET {0} :
          /\ issued = old
          /\ images = [p \in {ImagePath(PngMagic, PhotoColumn, t) : t \in old} |-> PngMagic]
    /\ MainOff

CallProcessCell ==
    /\ fpc = "called"
    /\ \E tok \in FreshTokens(arg.value) :
          /\ ret' = process_cell(arg.value, arg.column, tok)
          /\ images' = ImagesAfter(arg.value, arg.column, tok)
          /\ issued' = IssuedAfter(arg.value, tok)
    /\ fpc' = "returned"
    /\ UNCHANGED <<arg, mainvars>>

NextCell == CallProcessCell

SpecCell == InitCell /\ [][NextCell]_vars

-----------------------------------------------------------------------------
(* The spreadsheet and main()                                               *)

\* Cell values of the spreadsheet, as openpyxl gives them.
CellNone == [t |-> "none", s |-> <<>>, n |-> 0]
CellStr(s) == [t |-> "str", s |-> s, n |-> 0]
CellNum(n) == [t |-> "num", s |-> <<>>, n |-> n]

\* bool(v) of a cell value: None, "" and 0 are false.
Truthy(v) == (v.t = "str" /\ v.s # <<>>) \/ (v.t = "num" /\ v.n # 0)

\* The status Processing of the specification's job queue, as the text of a cell.
ProcessingCell == CellStr(<<"P", "r", "o", "c", "e", "s", "s", "i", "n", "g">>)

\* The test of line 182 passing a cell that reads Processing on to the export.
Skip_retryProcessing(query, cell) ==
    ~Truthy(query) \/ (Truthy(cell) /\ cell # ProcessingCell)

\* The test of line 182 taken without the cell: every row with a query is run.
Skip_queryOnly(query, cell) == ~Truthy(query)

\* if not query or csv_cell.value: continue
Skip(query, cell) == ~Truthy(query) \/ Truthy(cell)

DotCsv == <<".", "c", "s", "v">>

ErrorPrefix == <<"E", "R", "R", "O", "R", ":", " ">>

\* csv_cell.value = f"{csv_name}.csv"
DoneValue(name) == CellStr(name \o DotCsv)

\* The error status without its prefix: str(e) alone.
ErrorValue_bare(msg) == CellStr(msg)

\* csv_cell.value = f"ERROR: {str(e)}"
ErrorValue(msg) == CellStr(ErrorPrefix \o msg)

\* get_unique_csv_name as the line main() has commented out had it: the base name.
get_unique_csv_name_base(base_name, existing) == base_name

\* The loop of get_unique_csv_name: the first base_name_<counter>, counting up
\* from counter, that names no file of output/.
RECURSIVE UniqueFrom(_, _, _)
UniqueFrom(base_name, counter, existing) ==
    LET new_name == base_name \o <<"_">> \o Str(counter)
    IN  IF new_name \notin existing THEN new_name
        ELSE UniqueFrom(base_name, counter + 1, existing)

\* get_unique_csv_name; existing is the set of names n with output/n.csv.
get_unique_csv_name(base_name, existing) ==
    IF base_name \notin existing THEN base_name
    ELSE UniqueFrom(base_name, 1, existing)

\* The batch size the specification gives the exporter (its 5000, scaled).
BatchSize == 1

\* cur.fetchmany(BatchSize) in the place of cur.fetchall(): one batch of the result.
fetchall_batch(n) == [i \in 1..(IF n > BatchSize THEN BatchSize ELSE n) |-> <<PyInt(i)>>]

\* cur.fetchall() on a result of n rows: all of them, each one id column.
fetchall(n) == [i \in 1..n |-> <<PyInt(i)>>]

\* [col[0] for col in cur.description]
Description == << <<"i", "d">> >>

\* wb.save inside the loop: the workbook is written after every job.
SavedAfterJob_inLoop(onDisk, inMemory) == inMemory

\* The spreadsheet on disk when a job of the loop has ended: wb.save stands
\* after the loop (line 199), so it is what it was.
SavedAfterJob(onDisk, inMemory) == onDisk

\* The cell D of row r set to v.
SetD(sh, r, v) == [sh EXCEPT ![r] = [C |-> sh[r].C, D |-> v]]

max_row(sh) == 1 + Cardinality(DOMAIN sh)

Running == {"start", "loop", "fetch", "export", "rows"}

\* get_excel_file raises FileNotFoundError: no spreadsheet next to main.py.
NoExcelFile ==
    /\ pc = "start"
    /\ ~excel
    /\ pc' = "aborted"
    /\ abortCause' = "FileNotFoundError"
    /\ UNCHANGED <<run, excel, saved, sheet, row, csv_name, output, openConns,
                   dbRows, data, columns, idx, exported, opened, start, prevDone>>

\* get_excel_file, load_workbook: the spreadsheet is read into memory.
LoadWorkbook ==
    /\ pc = "start"
    /\ excel
    /\ sheet' = saved
    /\ row' = 2
    /\ pc' = "loop"
    /\ UNCHANGED <<run, excel, saved, csv_name, output, openConns, dbRows,
                   data, columns, idx, abortCause, exported, opened, start, prevDone>>

\* Line 182: a row without a query, or whose cell D holds something, is passed.
SkipRow ==
    /\ pc = "loop"
    /\ row <= max_row(sheet)
    /\ Skip(sheet[row].C, sheet[row].D)
    /\ row' = row + 1
    /\ UNCHANGED <<pc, run, excel, saved, sheet, csv_name, output, openConns,
                   dbRows, data, columns, idx, abortCause, exported, opened, start,
                   prevDone>>

\* Lines 186-187, outside the try: re.findall raises TypeError for a query
\* cell that holds no text, and main() ends with it.
NameRow ==
    /\ pc = "loop"
    /\ row <= max_row(sheet)
    /\ ~Skip(sheet[row].C, sheet[row].D)
    /\ IF sheet[row].C.t = "str"
       THEN /\ csv_name' = get_unique_csv_name(extract_table_names(sheet[row].C.s),
                                               DOMAIN output)
            /\ pc' = "fetch"
            /\ UNCHANGED abortCause
       ELSE /\ pc' = "aborted"
            /\ abortCause' = "TypeError"
            /\ UNCHANGED csv_name
    /\ UNCHANGED <<run, excel, saved, sheet, row, output, openConns, dbRows,
                   data, columns, idx, exported, opened, start, prevDone>>

\* What the except clause and the end of the loop body do with the message of
\* the exception raised for the row.
RowFailed(msg) ==
    /\ sheet' = SetD(sheet, row, ErrorValue(msg))
    /\ saved' = SavedAfterJob(saved, sheet')
    /\ row' = row + 1
    /\ pc' = "loop"

\* fetch_data: psycopg2.connect raises; no connection was made.
ConnectFails ==
    /\ pc = "fetch"
    /\ exported' = exported \cup {row}
    /\ RowFailed(<<"t", "i", "m", "e", "o", "u", "t">>)
    /\ UNCHANGED <<run, excel, csv_name, output, openConns, dbRows, data,
                   columns, idx, abortCause, opened, start, prevDone>>

\* fetch_data: cur.execute raises.  Leaving "with conn" rolls the transaction
\* back and leaves the connection open (psycopg2 closes no connection there).
ExecuteFails ==
    /\ pc = "fetch"
    /\ exported' = exported \cup {row}
    /\ openConns' = openConns \cup {row}
    /\ RowFailed(<<"s", "y", "n", "t", "a", "x">>)
    /\ UNCHANGED <<run, excel, csv_name, output, dbRows, data, columns, idx,
                   abortCause, opened, start, prevDone>>

\* fetch_data returns: the whole result and the column names.  Leaving
\* "with conn" commits and leaves the connection open.
FetchData ==
    /\ pc = "fetch"
    /\ exported' = exported \cup {row}
    /\ openConns' = openConns \cup {row}
    /\ data' = fetchall(dbRows)
    /\ columns' = Description
    /\ pc' = "export"
    /\ UNCHANGED <<run, excel, saved, sheet, row, csv_name, output, dbRows, idx,
                   abortCause, opened, start, prevDone>>

\* A connection no frame refers to any more is finalized, whenever the
\* interpreter collects it: only then is it closed.
FinalizeConnection ==
    /\ pc \in Running \cup {"done", "aborted"}
    /\ \E c \in openConns : openConns' = openConns \ {c}
    /\ UNCHANGED <<pc, run, excel, saved, sheet, row, csv_name, output, dbRows,
                   data, columns, idx, abortCause, exported, opened, start, prevDone>>

\* export_to_csv: open(csv_path, "w") creates or truncates the file, and the
\* header is written to it.
OpenCsv ==
    /\ pc = "export"
    /\ opened' = opened \cup
          {[row |-> row, name |-> csv_name, existed |-> csv_name \in DOMAIN output]}
    /\ output' = WriteFile(output, csv_name, <<columns>>)
    /\ idx' = 1
    /\ pc' = "rows"
    /\ UNCHANGED <<run, excel, saved, sheet, row, csv_name, openConns, dbRows,
                   data, columns, abortCause, exported, start, prevDone>>

\* export_to_csv: one row of data is classified and written.
WriteRow ==
    /\ pc = "rows"
    /\ idx <= Len(data)
    /\ \E tok \in FreshTokens(data[idx][1]) :
          LET line == <<process_cell(data[idx][1], columns[1], tok)>>
          IN  /\ output' = [output EXCEPT ![csv_name] = Append(output[csv_name], line)]
              /\ images' = ImagesAfter(data[idx][1], columns[1], tok)
              /\ issued' = IssuedAfter(data[idx][1], tok)
    /\ idx' = idx + 1
    /\ UNCHANGED <<pc, run, excel, saved, sheet, row, csv_name, openConns,
                   dbRows, data, columns, abortCause, exported, opened, start, prevDone>>

\* export_to_csv: writing a row raises (the disk is full); the with statement
\* closes the file and the except clause of main() records the error.
WriteFails ==
    /\ pc = "rows"
    /\ idx <= Len(data)
    /\ RowFailed(<<>>)
    /\ UNCHANGED <<run, excel, csv_name, output, openConns, dbRows, data, columns, idx,
                   abortCause, exported, opened, start, prevDone, images, issued>>

\* export_to_csv returns: the file is closed, and line 195 records the name.
FinishCsv ==
    /\ pc = "rows"
    /\ idx > Len(data)
    /\ sheet' = SetD(sheet, row, DoneValue(csv_name))
    /\ saved' = SavedAfterJob(saved, sheet')
    /\ row' = row + 1
    /\ pc' = "loop"
    /\ UNCHANGED <<run, excel, csv_name, output, openConns, dbRows, data, columns, idx,
                   abortCause, exported, opened, start, prevDone, images, issued>>

\* Line 199, after the loop: wb.save(excel_file), and main() returns.
SaveWorkbook ==
    /\ pc = "loop"
    /\ row > max_row(sheet)
    /\ saved' = sheet
    /\ pc' = "done"
    /\ UNCHANGED <<run, excel, sheet, row, csv_name, output, openConns, dbRows,
                   data, columns, idx, abortCause, exported, opened, start, prevDone>>

\* The process is interrupted or killed in the middle of a run.  The file
\* export_to_csv has open is buffered and never flushed before it is closed:
\* any number of the lines written to it may have reached the disk.  The
\* connections of the process end with it.
Interrupt ==
    /\ pc \in Running
    /\ pc' = "interrupted"
    /\ IF pc = "rows"
       THEN \E k \in 0..Len(output[csv_name]) :
                output' = [output EXCEPT ![csv_name] = SubSeq(output[csv_name], 1, k)]
       ELSE UNCHANGED output
    /\ openConns' = {}
    /\ UNCHANGED <<run, excel, saved, sheet, row, csv_name, dbRows, data,
                   columns, idx, abortCause, exported, opened, start, prevDone>>

MaxRuns == 2

\* main() is run again, in a new process, on the files the last run left.
RunAgain ==
    /\ pc \in {"done", "aborted", "interrupted"}
    /\ run < MaxRuns
    /\ run' = run + 1
    /\ prevDone' = (pc = "done")
    /\ start' = [output |-> output, saved |-> saved]
    /\ pc' = "start"
    /\ sheet' = <<>>
    /\ row' = 0
    /\ csv_name' = <<>>
    /\ openConns' = {}
    /\ data' = <<>>
    /\ columns' = <<>>
    /\ idx' = 0
    /\ abortCause' = ""
    /\ exported' = {}
    /\ opened' = {}
    /\ UNCHANGED <<excel, saved, output, dbRows>>

-----------------------------------------------------------------------------
(* The spreadsheets, databases and output directories main() is run on      *)

MaxRow == 3

MaxData == 2

UsersName == <<"u", "s", "e", "r", "s">>

\* from users
UsersQuery == <<"f", "r", "o", "m", " ", "u", "s", "e", "r", "s">>

\* SELECT 1
SelectQuery == <<"S", "E", "L", "E", "C", "T", " ", "1">>

\* The rows of the spreadsheets: an empty row, a query cell holding a number,
\* two pending queries, a query whose cell D reads Processing, an exported one.
SheetRows ==
    { [C |-> CellNone, D |-> CellNone],
      [C |-> CellNum(42), D |-> CellNone],
      [C |-> CellStr(UsersQuery), D |-> CellNone],
      [C |-> CellStr(SelectQuery), D |-> CellNone],
      [C |-> CellStr(UsersQuery), D |-> ProcessingCell],
      [C |-> CellStr(UsersQuery), D |-> DoneValue(UsersName)] }

\* A file of output/ written by an earlier export.
OldCsv == <<Description>>

InitialOutputs ==
    { NoFiles, [n \in {UsersName, UsersName \o <<"_", "1">>} |-> OldCsv] }

Init ==
    /\ pc = "start"
    /\ run = 1
    /\ excel \in BOOLEAN
    /\ saved \in [2..MaxRow -> SheetRows]
    /\ sheet = <<>>
    /\ row = 0
    /\ csv_name = <<>>
    /\ output \in InitialOutputs
    /\ openConns = {}
    /\ dbRows \in 0..MaxData
    /\ data = <<>>
    /\ columns = <<>>
    /\ idx = 0
    /\ abortCause = ""
    /\ exported = {}
    /\ opened = {}
    /\ start = [output |-> output, saved |-> saved]
    /\ prevDone = FALSE
    /\ arg = <<>> /\ ret = <<>> /\ fpc = "idle" /\ images = NoFiles /\ issued = {}

Next ==
    \/ NoExcelFile /\ UNCHANGED <<arg, ret, fpc, images, issued>>
    \/ LoadWorkbook /\ UNCHANGED <<arg, ret, fpc, images, issued>>
    \/ SkipRow /\ UNCHANGED <<arg, ret, fpc, images, issued>>
    \/ NameRow /\ UNCHANGED <<arg, ret, fpc, images, issued>>
    \/ ConnectFails /\ UNCHANGED <<arg, ret, fpc, images, issued>>
    \/ ExecuteFails /\ UNCHANGED <<arg, ret, fpc, images, issued>>
    \/ FetchData /\ UNCHANGED <<arg, ret, fpc, images, issued>>
    \/ FinalizeConnection /\ UNCHANGED <<arg, ret, fpc, images, issued>>
    \/ OpenCsv /\ UNCHANGED <<arg, ret, fpc, images, issued>>
    \/ WriteRow /\ UNCHANGED <<arg, ret, fpc>>
    \/ WriteFails /\ UNCHANGED <<arg, ret, fpc>>
    \/ FinishCsv /\ UNCHANGED <<arg, ret, fpc>>
    \/ SaveWorkbook /\ UNCHANGED <<arg, ret, fpc, images, issued>>
    \/ Interrupt /\ UNCHANGED <<arg, ret, fpc, images, issued>>
    \/ RunAgain /\ UNCHANGED <<arg, ret, fpc, images, issued>>

Spec == Init /\ [][Next]_vars

-----------------------------------------------------------------------------
(* The claims about main()                                                  *)

EndsWith(a, suffix) ==
    Len(a) >= Len(suffix) /\ SubSeq(a, Len(a) - Len(suffix) + 1, Len(a)) = suffix

\* The rows whose job this run has started and ended.
Finished == {r \in exported : r < row}

\* A cell D that records an outcome: <name>.csv or ERROR: <message>.
IsOutcome(v) == v.t = "str" /\ (EndsWith(v.s, DotCsv) \/ StartsWith(v.s, ErrorPrefix))

C3_Idempotent ==
    /\ \A r \in exported : Truthy(start.saved[r].C) /\ ~Truthy(start.saved[r].D)
    /\ (run > 1 /\ prevDone) =>
          /\ exported = {}
          /\ opened = {}
          /\ pc \notin {"fetch", "export", "rows"}
          /\ output = start.output
          /\ saved = start.saved
          /\ sheet # <<>> => sheet = start.saved

\* The second run has ended after a first that ran to its end and left one
\* row exported and another in error.
C3_Witness ==
    /\ run = 2 /\ prevDone /\ pc = "done"
    /\ \E r1, r2 \in DOMAIN saved :
          /\ saved[r1].D.t = "str" /\ StartsWith(saved[r1].D.s, ErrorPrefix)
          /\ saved[r2].D = DoneValue(UsersName)
          /\ UsersName \in DOMAIN output

\* C4 as stated: main() ends with an exception only when no spreadsheet is
\* found, before any job has run; an exception raised for a row never ends it.
C4_Original ==
    pc = "aborted" => (abortCause = "FileNotFoundError" /\ exported = {})

\* C5 (as amended): a row whose persisted status reads Processing is, like any
\* row with a non-empty status, passed over by the next run: its export is not
\* started and its status stays Processing, in memory and on disk.  A run
\* interrupted in the middle of an export leaves that row's persisted status
\* empty, not Processing.
C5_ProcessingSkipped ==
    /\ \A r \in DOMAIN saved :
          start.saved[r].D = ProcessingCell =>
              /\ r \notin exported
              /\ saved[r].D = ProcessingCell
              /\ sheet # <<>> => sheet[r].D = ProcessingCell
              /\ pc \in {"fetch", "export", "rows"} => row # r
    /\ pc = "interrupted" => \A r \in exported : saved[r].D = CellNone

\* A run has ended that exported one row and passed over a row with a query
\* and the status Processing.
C5_Witness ==
    /\ pc = "done"
    /\ exported # {}
    /\ \E r \in DOMAIN saved : Truthy(saved[r].C) /\ saved[r].D = ProcessingCell

\* C5 as stated: a row with a query whose status reads Processing ends the run
\* with a terminal status.
C5_Original ==
    pc = "done" => \A r \in DOMAIN sheet : Truthy(sheet[r].C) => sheet[r].D # ProcessingCell

\* The base name the specification derives for the queries of the model.
ExpectedBase(query) == IF query = UsersQuery THEN UsersName ELSE ResultName

Digit == <<"0", "1", "2", "3", "4", "5", "6", "7", "8", "9">>

\* <base>_<k>, for k < 10.
Suffixed(base, k) == base \o <<"_", Digit[k + 1]>>

\* C6: the name of a job is the base name if output/ has no file of that name
\* and otherwise <base>_k for the least k >= 1 that names no file; no file a
\* job opens for writing existed before, and no two jobs of a run open the
\* same file.
C6_UniqueNames ==
    /\ pc \in {"fetch", "export"} =>
          LET base == ExpectedBase(sheet[row].C.s)
              E == DOMAIN output
          IN  /\ csv_name \notin E
              /\ base \notin E => csv_name = base
              /\ base \in E =>
                    \E k \in 1..9 :
                        /\ csv_name = Suffixed(base, k)
                        /\ \A j \in 1..(k - 1) : Suffixed(base, j) \in E
    /\ \A o \in opened : ~o.existed
    /\ \A o1, o2 \in opened : o1.row # o2.row => o1.name # o2.name

\* Two jobs of one run derived the same base name, which named a file already;
\* they wrote users_2.csv and users_3.csv.
C6_Witness ==
    \E o1, o2 \in opened :
        /\ o1.row < o2.row
        /\ o1.name = Suffixed(UsersName, 2)
        /\ o2.name = Suffixed(UsersName, 3)
        /\ UsersName \in DOMAIN output

\* The lines of the CSV file of a result of n rows: the header and a line per row.
ExpectedCsv(n) == << << <<"i", "d">> >> >> \o [i \in 1..n |-> << <<Digit[i + 1]>> >>]

IsPrefix(a, b) == Len(a) <= Len(b) /\ a = SubSeq(b, 1, Len(a))

C10_Original ==
    /\ Cardinality(openConns) <= 1
    /\ pc = "done" => openConns = {}

-----------------------------------------------------------------------------
(* The classifier's claim                                                   *)

\* The extension the specification gives a binary value by its leading bytes,
\* <<>> if it gives none.
SignatureExt(b) ==
    IF Len(b) >= 4 /\ b[1] = 137 /\ b[2] = 80 /\ b[3] = 78 /\ b[4] = 71
    THEN <<"p", "n", "g">>
    ELSE IF Len(b) >= 3 /\ b[1] = 255 /\ b[2] = 216 /\ b[3] = 255
    THEN <<"j", "p", "g">>
    ELSE IF Len(b) >= 4 /\ b[1] = 82 /\ b[2] = 73 /\ b[3] = 70 /\ b[4] = 70
    THEN <<"w", "e", "b", "p">>
    ELSE <<>>

LowerHexValue(c) == CHOOSE v \in 0..15 : HexDigits[v + 1] = c

\* text is the lowercase hexadecimal encoding of the bytes b.
IsLowerHexOf(text, b) ==
    /\ Len(text) = 2 * Len(b)
    /\ \A i \in 1..Len(text) : \E v \in 0..15 : HexDigits[v + 1] = text[i]
    /\ \A i \in 1..Len(b) :
          b[i] = 16 * LowerHexValue(text[2 * i - 1]) + LowerHexValue(text[2 * i])

\* C8: for a binary value whose leading bytes are a PNG, JPEG or RIFF
\* signature, process_cell returns the path images/<column>_<token>.<ext> of a
\* file that did not exist, now holds the bytes and has the extension of the
\* signature, and no other file changes; for any other binary value it returns
\* the lowercase hexadecimal encoding and creates no file; for None it returns
\* the empty string.
C8_BinaryCell ==
    [][(fpc = "called" /\ fpc' = "returned") =>
          LET v == arg.value
              ext == SignatureExt(v.b)
          IN  /\ v.t = "none" => (ret' = <<>> /\ images' = images)
              /\ (v.t = "bytes" /\ ext # <<>>) =>
                    /\ ret' \notin DOMAIN images
                    /\ DOMAIN images' = DOMAIN images \cup {ret'}
                    /\ images'[ret'] = v.b
                    /\ \A p \in DOMAIN images : images'[p] = images[p]
                    /\ StartsWith(ret', <<"i", "m", "a", "g", "e", "s", "/">> \o arg.column \o <<"_">>)
                    /\ EndsWith(ret', <<".">> \o ext)
              /\ (v.t = "bytes" /\ ext = <<>>) =>
                    /\ images' = images
                    /\ IsLowerHexOf(ret', v.b)]_vars

\* A JPEG value with a byte after its signature has been saved beside an
\* image saved earlier; the file holds its bytes.
C8_Witness ==
    /\ fpc = "returned"
    /\ arg.value = PyBytes(<<255, 216, 255, 10>>)
    /\ Cardinality(DOMAIN images) = 2
    /\ ret \in DOMAIN images
    /\ images[ret] = <<255, 216, 255, 10>>
    /\ EndsWith(ret, <<".", "j", "p", "g">>)

-----------------------------------------------------------------------------
(* The name deriver's claim                                                 *)

\* What a reader of the query expects of one clause: it names a table when its
\* word ends in FROM or JOIN (any case), whitespace follows and the operand is
\* an identifier; the table is the operand without quotes and schema.
ClauseNamesTable(c) ==
    /\ Len(c.word) >= 4
    /\ LowerStr(SubSeq(c.word, Len(c.word) - 3, Len(c.word)))
          \in {<<"f", "r", "o", "m">>, <<"j", "o", "i", "n">>}
    /\ c.ws # <<>>
    /\ c.operand # <<"(">>

ClauseTable(c) ==
    IF c.operand = <<"\"", "U", "s", "e", "r", "s", "\"">> THEN <<"U", "s", "e", "r", "s">>
    ELSE <<"o", "r", "d", "e", "r", "s">>

ExpectedTables(a) ==
    IF a.text = ExampleQuery
    THEN {<<"U", "s", "e", "r", "s">>, <<"o", "r", "d", "e", "r", "s">>}
    ELSE {ClauseTable(a.clauses[i]) : i \in {j \in 1..Len(a.clauses) : ClauseNamesTable(a.clauses[j])}}

UsersOrders == <<"U", "s", "e", "r", "s", "_", "o", "r", "d", "e", "r", "s">>

OrdersUsers == <<"o", "r", "d", "e", "r", "s", "_", "u", "s", "e", "r", "s">>

\* C9 (as amended): the derived name is "result" when no identifier follows a
\* FROM or JOIN, and otherwise the distinct table names (quotes and schema
\* stripped, case kept), in increasing code-point order, joined by underscores;
\* the example query FROM "Users" u JOIN orders o gives Users_orders.
C9_DerivedName ==
    fpc = "returned" =>
        LET S == ExpectedTables(arg)
        IN  /\ S = {} => ret = ResultName
            /\ S # {} =>
                  \E s \in [1..Cardinality(S) -> S] :
                      /\ \A i, j \in 1..Cardinality(S) : i < j => StrLess(s[i], s[j])
                      /\ ret = Join(<<"_">>, s)
            /\ arg.text = ExampleQuery => ret = UsersOrders

\* The example query has been derived; so has a query naming one table twice,
\* with and without its schema.
C9_Witness ==
    /\ fpc = "returned"
    /\ arg.text = ExampleQuery
    /\ ret = UsersOrders

\* C9 as stated: the example query derives orders_users.
C9_Original ==
    (fpc = "returned" /\ arg.text = ExampleQuery) => ret = OrdersUsers

=============================================================================
